---- MODULE Spec2Model ----
(***************************************************************************)
(* A model of the Structurizr inventory plugin                             *)
(* (plugins/inventory/structurizr.py, class InventoryModule).              *)
(*                                                                         *)
(* One parse() call is modelled as a sequential process whose position is  *)
(* pc.  The collaborators the plugin reaches only through calls (the       *)
(* inventory, the cache, the reader, the constructed-variables subsystem)  *)
(* are modelled by the sequence of calls made to them, in order.           *)
(*                                                                         *)
(* A Python string is modelled as a sequence of one-character strings, so  *)
(* that sanitizing, splitting, trimming and prefix tests are computed      *)
(* character by character as the code computes them.                       *)
(***************************************************************************)
EXTENDS Integers, Sequences, FiniteSets, TLC

----------------------------------------------------------------------------
(* Python values *)

\* Python's None, and the value of dict.get() on an absent key.
None == <<"~None">>

\* bool(v) of a string-or-None value.
Truthy(v) == v # None /\ v # <<>>

\* str(v): the text "None" for None, the string itself otherwise.
Str(v) == IF v = None THEN <<"N", "o", "n", "e">> ELSE v

UpperChars ==
  <<"A", "B", "C", "D", "E", "F", "G", "H", "I", "J", "K", "L", "M",
    "N", "O", "P", "Q", "R", "S", "T", "U", "V", "W", "X", "Y", "Z">>

LowerChars ==
  <<"a", "b", "c", "d", "e", "f", "g", "h", "i", "j", "k", "l", "m",
    "n", "o", "p", "q", "r", "s", "t", "u", "v", "w", "x", "y", "z">>

DigitChars == {"0", "1", "2", "3", "4", "5", "6", "7", "8", "9"}

IsUpper(c) == \E i \in 1..26 : UpperChars[i] = c

IsLowerCh(c) == \E i \in 1..26 : LowerChars[i] = c

\* One character of str.lower().
LowerChar(c) ==
  IF IsUpper(c) THEN LowerChars[CHOOSE i \in 1..26 : UpperChars[i] = c] ELSE c

\* str.lower()
Lower(s) == [i \in 1..Len(s) |-> LowerChar(s[i])]

\* A character the pattern [^a-zA-Z0-9_] does not match.
IsWordChar(c) == IsUpper(c) \/ IsLowerCh(c) \/ c \in DigitChars \/ c = "_"

\* str.startswith(p)
StartsWith(s, p) == Len(s) >= Len(p) /\ SubSeq(s, 1, Len(p)) = p

\* sep.join(parts)
RECURSIVE Join(_, _)
Join(sep, parts) ==
  IF parts = <<>> THEN <<>>
  ELSE IF Len(parts) = 1 THEN parts[1]
  ELSE parts[1] \o sep \o Join(sep, Tail(parts))

\* s.split(","): the pieces between the commas, at least one piece.
RECURSIVE SplitComma(_)
SplitComma(s) ==
  IF \A i \in 1..Len(s) : s[i] # ","
  THEN <<s>>
  ELSE LET k == CHOOSE i \in 1..Len(s) :
                  s[i] = "," /\ \A j \in 1..(i - 1) : s[j] # ","
       IN  <<SubSeq(s, 1, k - 1)>> \o SplitComma(SubSeq(s, k + 1, Len(s)))

\* s.strip(): leading and trailing blanks removed.
RECURSIVE Strip(_)
Strip(s) ==
  IF s = <<>> THEN s
  ELSE IF s[1] = " " THEN Strip(Tail(s))
  ELSE IF s[Len(s)] = " " THEN Strip(SubSeq(s, 1, Len(s) - 1))
  ELSE s

----------------------------------------------------------------------------
(* A Python dict as the sequence of its items in insertion order.  Every    *)
(* value carries its kind: "str" (v = <<the string>>), "list" (v = the list *)
(* of strings) or "none" (v = <<>>).                                        *)

StrVal(s) == IF s = None THEN [kind |-> "none", v |-> <<>>]
             ELSE [kind |-> "str", v |-> <<s>>]

ListVal(l) == [kind |-> "list", v |-> l]

DictHas(d, k) == \E i \in 1..Len(d) : d[i].k = k

DictGet(d, k) == d[CHOOSE i \in 1..Len(d) : d[i].k = k].val

\* d[k] = val: an existing key keeps its place and takes the new value.
DictSet(d, k, val) ==
  IF DictHas(d, k)
  THEN [i \in 1..Len(d) |-> IF d[i].k = k THEN [k |-> k, val |-> val] ELSE d[i]]
  ELSE Append(d, [k |-> k, val |-> val])

----------------------------------------------------------------------------
(* Calls to the collaborators.  A call records the operation, its two       *)
(* string arguments (a, b), its value argument (val), and where the walk    *)
(* stood when it was made: the index of the top-level deployment node       *)
(* (top), the path of child indices from it to the deployment node being    *)
(* processed (path), what the call was made for (role: "level" for the      *)
(* node's hierarchy group, "self" for materializing the deployment node,    *)
(* else the list the materialized instance is attached in) and the          *)
(* instance's index in that list (idx, 0 for a deployment node).            *)

NoWhere == [top |-> 0, path |-> <<>>, role |-> "", idx |-> 0]

Call(op, a, b, val, at) ==
  [op |-> op, a |-> a, b |-> b, val |-> val,
   top |-> at.top, path |-> at.path, role |-> at.role, idx |-> at.idx]

add_host(name, at) == Call("add_host", name, <<>>, StrVal(None), at)

add_group(name, at) == Call("add_group", name, <<>>, StrVal(None), at)

add_child(parent, child, at) == Call("add_child", parent, child, StrVal(None), at)

set_variable(host, key, val, at) == Call("set_variable", host, key, val, at)

\* The outcome of a piece of the walk: the calls it made, the names it
\* appended to self._hosts, and the exception that ended it ("" for none).
Nothing == [calls |-> <<>>, hosts |-> <<>>, exc |-> ""]

Calls(cs) == [calls |-> cs, hosts |-> <<>>, exc |-> ""]

\* r1, then r2 unless r1 raised.
Then(r1, r2) ==
  IF r1.exc # "" THEN r1
  ELSE [calls |-> r1.calls \o r2.calls, hosts |-> r1.hosts \o r2.hosts,
        exc |-> r2.exc]

----------------------------------------------------------------------------
(* String literals of the plugin *)

S_id == <<"i", "d">>

S_name == <<"n", "a", "m", "e">>

S_structurizr == <<"s", "t", "r", "u", "c", "t", "u", "r", "i", "z", "r", "_">>

S_structurizr_id == S_structurizr \o S_id

S_structurizr_name == S_structurizr \o S_name

S_structurizr_description ==
  S_structurizr \o <<"d", "e", "s", "c", "r", "i", "p", "t", "i", "o", "n">>

S_technology == <<"t", "e", "c", "h", "n", "o", "l", "o", "g", "y">>

S_structurizr_tags == S_structurizr \o <<"t", "a", "g", "s">>

S_structurizr_environment ==
  S_structurizr \o <<"e", "n", "v", "i", "r", "o", "n", "m", "e", "n", "t">>

S_structurizr_hierarchy ==
  S_structurizr \o <<"h", "i", "e", "r", "a", "r", "c", "h", "y">>

S_ansible_ == <<"a", "n", "s", "i", "b", "l", "e", "_">>

S_env_ == <<"e", "n", "v", "_">>

S_tag_ == <<"t", "a", "g", "_">>

S_tech_ == <<"t", "e", "c", "h", "_">>

S_Element == <<"E", "l", "e", "m", "e", "n", "t">>

S_Deployment_Node ==
  <<"D", "e", "p", "l", "o", "y", "m", "e", "n", "t", " ", "N", "o", "d", "e">>

S_Infrastructure_Node ==
  <<"I", "n", "f", "r", "a", "s", "t", "r", "u", "c", "t", "u", "r", "e",
    " ", "N", "o", "d", "e">>

StructuralTags == {S_Element, S_Deployment_Node, S_Infrastructure_Node}

S_http == <<"h", "t", "t", "p", ":", "/", "/">>

S_https == <<"h", "t", "t", "p", "s", ":", "/", "/">>

----------------------------------------------------------------------------
(* The pure functions of InventoryModule *)

\* re.sub(r"[^a-zA-Z0-9_]", "_", name), a leading digit prefixed with "_",
\* then lower().
_sanitize_group_name(name) ==
  LET sanitized == [i \in 1..Len(name) |->
                      IF IsWordChar(name[i]) THEN name[i] ELSE "_"]
      prefixed  == IF sanitized # <<>> /\ sanitized[1] \in DigitChars
                   THEN <<"_">> \o sanitized
                   ELSE sanitized
  IN  Lower(prefixed)

\* {p["name"]: p["value"] for p in props}: a later pair overwrites an
\* earlier one of the same name.
RECURSIVE PairsToDict(_)
PairsToDict(items) ==
  IF items = <<>> THEN <<>>
  ELSE LET last == items[Len(items)]
       IN  DictSet(PairsToDict(SubSeq(items, 1, Len(items) - 1)),
                   last.name, last.value)

\* node.properties is [shape, items]: shape "absent" (no such key), "list"
\* (items are the pairs, each with or without its "name" and "value" key),
\* "dict" (items are the mapping's entries) or "other" (any other value).
\* The result is [exc, map]: p["name"] and p["value"] raise KeyError on a
\* pair that lacks the key.
_normalize_properties(node) ==
  LET props == node.properties
  IN  IF props.shape = "list"
      THEN IF \E i \in 1..Len(props.items) :
                 ~props.items[i].hasName \/ ~props.items[i].hasValue
           THEN [exc |-> "KeyError", map |-> <<>>]
           ELSE [exc |-> "", map |-> PairsToDict(props.items)]
      ELSE IF props.shape \in {"dict", "absent"}
      THEN [exc |-> "", map |-> PairsToDict(props.items)]
      ELSE [exc |-> "", map |-> <<>>]

\* The result is [exc, val].
_get_host_identifier(opt, node) ==
  IF opt.host_identifier = S_id
  THEN [exc |-> "", val |-> Str(IF node.id # None THEN node.id ELSE node.name)]
  ELSE IF opt.host_identifier = S_name
  THEN [exc |-> "", val |-> node.name]
  ELSE LET properties == _normalize_properties(node)
       IN  IF properties.exc # ""
           THEN [exc |-> properties.exc, val |-> None]
           ELSE [exc |-> "",
                 val |-> IF DictHas(properties.map, opt.host_identifier)
                         THEN DictGet(properties.map, opt.host_identifier)
                         ELSE node.name]

\* A naming that prefixes every property, reserved or passed through or not.
MutantPropertyVarName(opt, prop_name) ==
  IF opt.property_prefix # <<>> THEN opt.property_prefix \o prop_name
  ELSE prop_name

\* The variable a property is stored under.
PropertyVarName(opt, prop_name) ==
  IF StartsWith(prop_name, S_ansible_)
     \/ \E i \in 1..Len(opt.ansible_property_passthrough) :
          opt.ansible_property_passthrough[i] = prop_name
  THEN prop_name
  ELSE IF opt.property_prefix # <<>> THEN opt.property_prefix \o prop_name
  ELSE prop_name

RECURSIVE AddProperties(_, _, _)
AddProperties(opt, host_vars, props) ==
  IF props = <<>> THEN host_vars
  ELSE AddProperties(opt,
                     DictSet(host_vars, PropertyVarName(opt, props[1].k),
                             StrVal(props[1].val)),
                     Tail(props))

\* [t.strip() for t in tags.split(",")]
StrippedTags(tags) ==
  LET parts == SplitComma(tags) IN [i \in 1..Len(parts) |-> Strip(parts[i])]

\* The result is [exc, vars].
_extract_host_vars(opt, node, environment, hierarchy) ==
  LET v1 == <<[k |-> S_structurizr_id, val |-> StrVal(node.id)],
              [k |-> S_structurizr_name, val |-> StrVal(node.name)]>>
      v2 == IF Truthy(node.description)
            THEN DictSet(v1, S_structurizr_description, StrVal(node.description))
            ELSE v1
      v3 == IF Truthy(node.technology)
            THEN DictSet(v2, S_technology, StrVal(node.technology))
            ELSE v2
      v4 == IF Truthy(node.tags)
            THEN DictSet(v3, S_structurizr_tags, ListVal(StrippedTags(node.tags)))
            ELSE v3
      v5 == IF Truthy(environment)
            THEN DictSet(v4, S_structurizr_environment, StrVal(environment))
            ELSE v4
      v6 == IF hierarchy # <<>>
            THEN DictSet(v5, S_structurizr_hierarchy, ListVal(hierarchy))
            ELSE v5
      properties == _normalize_properties(node)
  IN  IF properties.exc # ""
      THEN [exc |-> properties.exc, vars |-> <<>>]
      ELSE [exc |-> "", vars |-> AddProperties(opt, v6, properties.map)]

----------------------------------------------------------------------------
(* Host Materializer: _add_host_to_inventory *)

RECURSIVE SetVariableCalls(_, _, _)
SetVariableCalls(host_name, host_vars, at) ==
  IF host_vars = <<>> THEN <<>>
  ELSE <<set_variable(host_name, host_vars[1].k, host_vars[1].val, at)>>
       \o SetVariableCalls(host_name, Tail(host_vars), at)

\* "Add to environment group"
EnvironmentGroupCalls(opt, host_name, environment, at) ==
  IF Truthy(environment) /\ opt.group_by_environment
  THEN LET env_group == _sanitize_group_name(S_env_ \o environment)
       IN  <<add_group(env_group, at), add_child(env_group, host_name, at)>>
  ELSE <<>>

\* A tag filter that lets the structural tags through.
MutantGroupingTags(tags) ==
  SelectSeq(StrippedTags(tags), LAMBDA t : t # <<>>)

\* The tags that give a group: stripped, non-empty, not structural.
GroupingTags(tags) ==
  SelectSeq(StrippedTags(tags), LAMBDA t : t # <<>> /\ t \notin StructuralTags)

RECURSIVE TagCalls(_, _, _)
TagCalls(host_name, tags, at) ==
  IF tags = <<>> THEN <<>>
  ELSE LET tag_group == _sanitize_group_name(S_tag_ \o tags[1])
       IN  <<add_group(tag_group, at), add_child(tag_group, host_name, at)>>
           \o TagCalls(host_name, Tail(tags), at)

\* "Add to tag groups"
TagGroupCalls(opt, host_name, node, at) ==
  IF opt.group_by_tags /\ Truthy(node.tags)
  THEN TagCalls(host_name, GroupingTags(node.tags), at)
  ELSE <<>>

\* "Add to technology group"
TechnologyGroupCalls(opt, host_name, node, at) ==
  IF opt.group_by_technology /\ Truthy(node.technology)
  THEN LET tech_group == _sanitize_group_name(S_tech_ \o node.technology)
       IN  <<add_group(tech_group, at), add_child(tech_group, host_name, at)>>
  ELSE <<>>

\* A hierarchy loop that adds the host to each group without registering
\* the group.
MutantHierarchyCalls(host_name, groups, at) ==
  [k \in 1..Len(groups) |-> add_child(groups[k], host_name, at)]

RECURSIVE HierarchyCalls(_, _, _)
HierarchyCalls(host_name, groups, at) ==
  IF groups = <<>> THEN <<>>
  ELSE (IF groups[1] = host_name
        THEN <<>>
        ELSE <<add_group(groups[1], at), add_child(groups[1], host_name, at)>>)
       \o HierarchyCalls(host_name, Tail(groups), at)

\* "Add to hierarchy groups"
HierarchyGroupCalls(opt, host_name, parent_groups, at) ==
  IF opt.group_by_hierarchy /\ parent_groups # <<>>
  THEN HierarchyCalls(host_name, parent_groups, at)
  ELSE <<>>

\* A materializer that registers the hierarchy groups first and writes the
\* variables last.
Mutant_add_host_to_inventory(opt, node, environment, hierarchy, parent_groups, at) ==
  LET ident == _get_host_identifier(opt, node)
  IN  IF ident.exc # "" THEN [Nothing EXCEPT !.exc = ident.exc]
      ELSE IF ~Truthy(ident.val) THEN Nothing
      ELSE
        LET host_name == ident.val
            host_vars == _extract_host_vars(opt, node, environment, hierarchy)
            added     == [calls |-> <<add_host(host_name, at)>>,
                          hosts |-> <<host_name>>, exc |-> ""]
        IN  IF host_vars.exc # "" THEN [added EXCEPT !.exc = host_vars.exc]
            ELSE Then(added, Calls(
                   HierarchyGroupCalls(opt, host_name, parent_groups, at)
                   \o EnvironmentGroupCalls(opt, host_name, environment, at)
                   \o TagGroupCalls(opt, host_name, node, at)
                   \o TechnologyGroupCalls(opt, host_name, node, at)
                   \o SetVariableCalls(host_name, host_vars.vars, at)))

_add_host_to_inventory(opt, node, environment, hierarchy, parent_groups, at) ==
  LET ident == _get_host_identifier(opt, node)
  IN  IF ident.exc # "" THEN [Nothing EXCEPT !.exc = ident.exc]
      ELSE IF ~Truthy(ident.val) THEN Nothing
      ELSE
        LET host_name == ident.val
            host_vars == _extract_host_vars(opt, node, environment, hierarchy)
            added     == [calls |-> <<add_host(host_name, at)>>,
                          hosts |-> <<host_name>>, exc |-> ""]
        IN  IF host_vars.exc # "" THEN [added EXCEPT !.exc = host_vars.exc]
            ELSE Then(added, Calls(
                   SetVariableCalls(host_name, host_vars.vars, at)
                   \o EnvironmentGroupCalls(opt, host_name, environment, at)
                   \o TagGroupCalls(opt, host_name, node, at)
                   \o TechnologyGroupCalls(opt, host_name, node, at)
                   \o HierarchyGroupCalls(opt, host_name, parent_groups, at)))

----------------------------------------------------------------------------
(* Tree Walker: _process_deployment_node and _parse_workspace *)

\* node.get("children") is truthy
HasChildren(node) == node.hasChildren /\ node.children # <<>>

\* A leaf test that takes every node for a leaf.
Mutant_is_leaf_deployment_node(node) == TRUE

\* not node.get("children", [])
_is_leaf_deployment_node(node) == node.children = <<>>

\* A walker that passes over the attached instances.
MutantAddInstances(opt, instances, i, environment, hierarchy, parent_groups, at, role) ==
  Nothing

\* The instances of one attached list, each materialized in turn.
RECURSIVE AddInstances(_, _, _, _, _, _, _, _)
AddInstances(opt, instances, i, environment, hierarchy, parent_groups, at, role) ==
  IF i > Len(instances) THEN Nothing
  ELSE Then(_add_host_to_inventory(opt, instances[i], environment, hierarchy,
                                   parent_groups,
                                   [at EXCEPT !.role = role, !.idx = i]),
            AddInstances(opt, instances, i + 1, environment, hierarchy,
                         parent_groups, at, role))

\* A level group that is nested under its immediate parent only.
MutantLevelGroupCalls(opt, node, current_group, parent_groups, at) ==
  IF HasChildren(node) /\ opt.group_by_hierarchy
  THEN <<add_group(current_group, at)>>
       \o (IF parent_groups # <<>>
               /\ parent_groups[Len(parent_groups)] # current_group
           THEN <<add_child(parent_groups[Len(parent_groups)], current_group, at)>>
           ELSE <<>>)
  ELSE <<>>

\* "Create group for this level if it has children"
LevelGroupCalls(opt, node, current_group, parent_groups, at) ==
  IF HasChildren(node) /\ opt.group_by_hierarchy
  THEN <<add_group(current_group, at)>>
       \o [i \in 1..Len(SelectSeq(parent_groups, LAMBDA g : g # current_group)) |->
             add_child(SelectSeq(parent_groups, LAMBDA g : g # current_group)[i],
                       current_group, at)]
  ELSE <<>>

RECURSIVE _process_deployment_node(_, _, _, _, _, _, _)
RECURSIVE ProcessChildren(_, _, _, _, _, _, _, _)

_process_deployment_node(opt, node, environment, hierarchy, parent_groups, top, path) ==
  LET node_name         == IF node.name = None THEN <<>> ELSE node.name
      current_hierarchy == Append(hierarchy, node_name)
      current_group     == _sanitize_group_name(Join(<<"_">>, current_hierarchy))
      at                == [top |-> top, path |-> path, role |-> "self", idx |-> 0]
      new_parent_groups == IF current_group # <<>>
                           THEN Append(parent_groups, current_group)
                           ELSE parent_groups
  IN  Then(Calls(LevelGroupCalls(opt, node, current_group, parent_groups,
                                 [at EXCEPT !.role = "level"])),
      Then(ProcessChildren(opt, node.children, 1, environment, current_hierarchy,
                           new_parent_groups, top, path),
      Then(IF _is_leaf_deployment_node(node)
           THEN _add_host_to_inventory(opt, node, environment, current_hierarchy,
                                       new_parent_groups, at)
           ELSE Nothing,
      Then(IF opt.include_infrastructure_nodes
           THEN AddInstances(opt, node.infrastructureNodes, 1, environment,
                             current_hierarchy, new_parent_groups, at,
                             "infrastructureNodes")
           ELSE Nothing,
      Then(IF opt.include_software_system_instances
           THEN AddInstances(opt, node.softwareSystemInstances, 1, environment,
                             current_hierarchy, new_parent_groups, at,
                             "softwareSystemInstances")
           ELSE Nothing,
           IF opt.include_container_instances
           THEN AddInstances(opt, node.containerInstances, 1, environment,
                             current_hierarchy, new_parent_groups, at,
                             "containerInstances")
           ELSE Nothing)))))

ProcessChildren(opt, children, i, environment, hierarchy, parent_groups, top, path) ==
  IF i > Len(children) THEN Nothing
  ELSE Then(_process_deployment_node(opt, children[i], environment, hierarchy,
                                     parent_groups, top, Append(path, i)),
            ProcessChildren(opt, children, i + 1, environment, hierarchy,
                            parent_groups, top, path))

\* env_node.get("environment", env_node.get("name"))
EnvName(env_node) ==
  IF env_node.environment # None THEN env_node.environment ELSE env_node.name

\* A filter that lets every environment pass.
MutantPassesFilter(opt, env_node) == TRUE

\* "Filter by environment if specified"
PassesFilter(opt, env_node) ==
  ~(Truthy(opt.environment) /\ EnvName(env_node) # opt.environment)

\* A dispatch that walks every top-level node itself.
MutantParseEnvNode(opt, env_node, top) ==
  IF ~PassesFilter(opt, env_node) THEN Nothing
  ELSE _process_deployment_node(opt, env_node, EnvName(env_node), <<>>, <<>>,
                                top, <<>>)

\* A dispatch that starts the hierarchy path of an environment's nodes with
\* the name of the environment.
MutantEnvironmentInPath(opt, env_node, top) ==
  IF ~PassesFilter(opt, env_node) THEN Nothing
  ELSE IF env_node.hasChildren
  THEN ProcessChildren(opt, env_node.children, 1, EnvName(env_node),
                       <<Str(EnvName(env_node))>>, <<>>, top, <<>>)
  ELSE _process_deployment_node(opt, env_node, EnvName(env_node), <<>>, <<>>,
                                top, <<>>)

\* One iteration of the loop of _parse_workspace over the top-level nodes:
\* the entities are env_node.get("children", [env_node]), and the node
\* itself is walked only as the sole entity of a node without children.
ParseEnvNode(opt, env_node, top) ==
  IF ~PassesFilter(opt, env_node) THEN Nothing
  ELSE IF env_node.hasChildren
  THEN ProcessChildren(opt, env_node.children, 1, EnvName(env_node), <<>>, <<>>,
                       top, <<>>)
  ELSE _process_deployment_node(opt, env_node, EnvName(env_node), <<>>, <<>>,
                                top, <<>>)

----------------------------------------------------------------------------
(* Workspaces: the Structurizr exports the model parses.  A node is a       *)
(* record with every field of the input format; an absent key is None, and  *)
(* hasChildren tells an absent "children" key from an empty list.           *)

Blank ==
  [id |-> None, name |-> None, environment |-> None, description |-> None,
   technology |-> None, tags |-> None,
   properties |-> [shape |-> "absent", items |-> <<>>],
   hasChildren |-> FALSE, children |-> <<>>,
   infrastructureNodes |-> <<>>, softwareSystemInstances |-> <<>>,
   containerInstances |-> <<>>]

Prop(n, v) == [hasName |-> TRUE, name |-> n, hasValue |-> TRUE, value |-> v]

PropWithoutValue(n) ==
  [hasName |-> TRUE, name |-> n, hasValue |-> FALSE, value |-> <<>>]

ListProps(items) == [shape |-> "list", items |-> items]

DictProps(items) == [shape |-> "dict", items |-> items]

OtherProps == [shape |-> "other", items |-> <<>>]

WithChildren(node, kids) == [node EXCEPT !.hasChildren = TRUE, !.children = kids]

S_ansible_force_host == S_ansible_ \o <<"f", "o", "r", "c", "e", "_", "h", "o", "s", "t">>

S_ansible_host == S_ansible_ \o <<"h", "o", "s", "t">>

S_fqdn == <<"f", "q", "d", "n">>

\* A web server: structural tags and one grouping tag, a technology, an
\* address, a custom property and an fqdn, as a list of pairs.
Web1 ==
  [Blank EXCEPT
     !.id = <<"1">>, !.name = <<"w", "1">>,
     !.tags = S_Element \o <<",">> \o S_Deployment_Node \o <<",", " ", "W">>,
     !.technology = <<"U", " ", "2">>,
     !.properties = ListProps(<<Prop(S_ansible_host, <<"1", "0">>),
                                Prop(<<"c">>, <<"v">>),
                                Prop(S_fqdn, <<"w", ".", "x">>)>>)]

\* A second web server, with a software system instance and a container
\* instance attached, and its properties as a mapping.
Web2 ==
  [Blank EXCEPT
     !.id = <<"2">>, !.name = <<"w", "2">>, !.tags = <<"W", ",", ",", "d", "b">>,
     !.description = <<"d">>,
     !.properties = DictProps(<<Prop(S_id, <<"9">>)>>),
     !.softwareSystemInstances = <<[Blank EXCEPT !.id = <<"5">>, !.name = <<"s", "s">>]>>,
     !.containerInstances = <<[Blank EXCEPT !.id = <<"6">>, !.name = <<"c", "i">>]>>]

\* A load balancer (an infrastructure node).
Lb ==
  [Blank EXCEPT
     !.id = <<"3">>, !.name = <<"l", "b">>,
     !.tags = S_Element \o <<",">> \o S_Infrastructure_Node,
     !.technology = <<"A", "L", "B">>, !.properties = OtherProps]

\* A host whose name is the name of its environment's group.
EnvP == [Blank EXCEPT !.id = <<"4">>, !.name = S_env_ \o <<"p">>]

\* A host whose name is the name of the group of its own tag.
TagW == [Blank EXCEPT !.id = <<"7">>, !.name = S_tag_ \o <<"w">>, !.tags = <<"W">>]

\* A node with neither an id nor a name.
Anonymous == [Blank EXCEPT !.technology = <<"x">>]

\* A node whose property list holds a pair without a value.
Malformed ==
  [Blank EXCEPT
     !.id = <<"8">>, !.name = <<"b">>,
     !.properties = ListProps(<<Prop(<<"c">>, <<"v">>), PropWithoutValue(S_fqdn)>>)]

\* A hypervisor: a deployment node with a child, a load balancer, and the
\* force-host property with the given value.
Hypervisor(value) ==
  [Blank EXCEPT
     !.id = <<"h">>, !.name = <<"h", "v">>,
     !.properties = DictProps(<<Prop(S_ansible_force_host, value)>>),
     !.hasChildren = TRUE, !.children = <<Web1>>,
     !.infrastructureNodes = <<Lb>>]

\* A rack: a deployment node of the same name with a child and without the
\* force-host property.
Rack ==
  [Blank EXCEPT
     !.id = <<"r">>, !.name = <<"h", "v">>,
     !.hasChildren = TRUE, !.children = <<Web2>>,
     !.infrastructureNodes = <<Lb>>]

\* The top-level deployment nodes the workspaces are built from.
Production ==
  [Blank EXCEPT
     !.id = <<"p">>, !.name = <<"d", "c">>, !.environment = <<"P">>,
     !.hasChildren = TRUE,
     !.children = <<Hypervisor(<<"T", "R", "U", "E">>), EnvP>>,
     !.infrastructureNodes = <<Lb>>]

Staging ==
  [Blank EXCEPT
     !.id = <<"s">>, !.name = <<"S">>,
     !.hasChildren = TRUE,
     !.children = <<Rack, TagW>>]

\* A single-level environment: no "children" key.
SingleLevel ==
  [Blank EXCEPT
     !.id = <<"m">>, !.name = <<"m", "w">>, !.environment = <<"P">>,
     !.infrastructureNodes = <<Lb>>]

\* A single-level environment whose "children" key holds an empty list.
EmptyChildren ==
  [Blank EXCEPT !.id = <<"e">>, !.name = <<"e", "w">>, !.hasChildren = TRUE]

AnonymousEnv ==
  [Blank EXCEPT
     !.name = <<"S">>, !.hasChildren = TRUE, !.children = <<Anonymous>>]

MalformedEnv ==
  [Blank EXCEPT
     !.name = <<"1", "-", "Q">>, !.hasChildren = TRUE, !.children = <<Malformed>>]

\* Three levels of nesting: a region, a zone in it, a shelf in the zone and
\* a server on the shelf.
Shelf ==
  [Blank EXCEPT
     !.id = <<"f">>, !.name = <<"s">>,
     !.hasChildren = TRUE, !.children = <<[Blank EXCEPT !.id = <<"k">>, !.name = <<"k">>]>>]

Zone ==
  [Blank EXCEPT
     !.id = <<"z">>, !.name = <<"z">>, !.hasChildren = TRUE, !.children = <<Shelf>>]

Region ==
  [Blank EXCEPT
     !.id = <<"g">>, !.name = <<"r">>, !.hasChildren = TRUE, !.children = <<Zone>>]

\* A deployment node without a name that has a child.
Unnamed ==
  [Blank EXCEPT
     !.id = <<"u">>,
     !.hasChildren = TRUE, !.children = <<[Blank EXCEPT !.id = <<"v">>, !.name = <<"v">>]>>]

\* The top-level node carries the force-host property and has an
\* infrastructure node, a software system instance and a container
\* instance attached to it directly.
Nested ==
  [Blank EXCEPT
     !.id = <<"n">>, !.name = <<"N">>,
     !.properties = DictProps(<<Prop(S_ansible_force_host, <<"t", "r", "u", "e">>)>>),
     !.hasChildren = TRUE, !.children = <<Region, Unnamed>>,
     !.infrastructureNodes = <<[Blank EXCEPT !.id = <<"a">>, !.name = <<"f", "w">>]>>,
     !.softwareSystemInstances = <<[Blank EXCEPT !.id = <<"b">>, !.name = <<"s", "i">>]>>,
     !.containerInstances = <<[Blank EXCEPT !.id = <<"c">>, !.name = <<"c", "o">>]>>]

\* The catalogue of top-level deployment nodes, by name.
Catalogue ==
  <<"Production", "MalformedEnv", "Staging", "SingleLevel", "EmptyChildren",
    "AnonymousEnv", "Nested">>

EnvNode(name) ==
  CASE name = "Production" -> Production
    [] name = "MalformedEnv" -> MalformedEnv
    [] name = "Staging" -> Staging
    [] name = "SingleLevel" -> SingleLevel
    [] name = "EmptyChildren" -> EmptyChildren
    [] name = "AnonymousEnv" -> AnonymousEnv
    [] name = "Nested" -> Nested

\* The largest number of top-level deployment nodes of a workspace.
MaxEnvs == 2

\* The elements of seq at the indices in S, in order.
RECURSIVE Pick(_, _)
Pick(seq, S) ==
  IF S = {} THEN <<>>
  ELSE LET m == CHOOSE i \in S : \A j \in S : i <= j
       IN  <<seq[m]>> \o Pick(seq, S \ {m})

\* A workspace is named by the catalogue entries that are its top-level
\* deployment nodes, in the catalogue's order.
Workspaces ==
  {Pick(Catalogue, S) : S \in {T \in SUBSET (1..Len(Catalogue)) :
                                 Cardinality(T) <= MaxEnvs}}

\* model.deploymentNodes of the workspace named ws.
DeploymentNodes(ws) == [i \in 1..Len(ws) |-> EnvNode(ws[i])]

----------------------------------------------------------------------------
(* Configurations: the options of the plugin (DOCUMENTATION), the cache     *)
(* argument of parse() and what the cache store holds under the cache key:  *)
(* "absent" (the lookup raises KeyError), "empty" (the lookup returns an    *)
(* empty result) or "stored" (the workspace, stored by an earlier parse).   *)

DefaultOptions ==
  [source |-> <<"w", ".", "j">>,
   environment |-> None,
   include_infrastructure_nodes |-> TRUE,
   include_software_system_instances |-> FALSE,
   include_container_instances |-> FALSE,
   group_by_environment |-> TRUE,
   group_by_tags |-> TRUE,
   group_by_technology |-> FALSE,
   group_by_hierarchy |-> TRUE,
   host_identifier |-> S_name,
   property_prefix |-> <<>>,
   ansible_property_passthrough |-> <<>>,
   cache |-> FALSE]

DefaultConfig == [options |-> DefaultOptions, cache |-> TRUE, store |-> "absent"]

Settings ==
  {"no_source", "url_source", "environment_P", "environment_empty",
   "no_infrastructure_nodes", "software_system_instances", "container_instances",
   "no_group_by_environment", "no_group_by_tags", "group_by_technology",
   "no_group_by_hierarchy", "host_identifier_id", "host_identifier_fqdn",
   "property_prefix", "passthrough", "cache_enabled", "cache_refresh",
   "store_empty", "store_stored"}

\* The configuration c with one setting changed from its default.
Change(c, setting) ==
  CASE setting = "no_source" -> [c EXCEPT !.options.source = None]
    [] setting = "url_source" -> [c EXCEPT !.options.source = S_https \o <<"x">>]
    [] setting = "environment_P" -> [c EXCEPT !.options.environment = <<"P">>]
    [] setting = "environment_empty" -> [c EXCEPT !.options.environment = <<>>]
    [] setting = "no_infrastructure_nodes" ->
         [c EXCEPT !.options.include_infrastructure_nodes = FALSE]
    [] setting = "software_system_instances" ->
         [c EXCEPT !.options.include_software_system_instances = TRUE]
    [] setting = "container_instances" ->
         [c EXCEPT !.options.include_container_instances = TRUE]
    [] setting = "no_group_by_environment" ->
         [c EXCEPT !.options.group_by_environment = FALSE]
    [] setting = "no_group_by_tags" -> [c EXCEPT !.options.group_by_tags = FALSE]
    [] setting = "group_by_technology" ->
         [c EXCEPT !.options.group_by_technology = TRUE]
    [] setting = "no_group_by_hierarchy" ->
         [c EXCEPT !.options.group_by_hierarchy = FALSE]
    [] setting = "host_identifier_id" -> [c EXCEPT !.options.host_identifier = S_id]
    [] setting = "host_identifier_fqdn" ->
         [c EXCEPT !.options.host_identifier = S_fqdn]
    [] setting = "property_prefix" ->
         [c EXCEPT !.options.property_prefix = S_structurizr]
    [] setting = "passthrough" ->
         [c EXCEPT !.options.ansible_property_passthrough = <<<<"c">>>>]
    [] setting = "cache_enabled" -> [c EXCEPT !.options.cache = TRUE]
    [] setting = "cache_refresh" -> [c EXCEPT !.cache = FALSE]
    [] setting = "store_empty" -> [c EXCEPT !.store = "empty"]
    [] setting = "store_stored" -> [c EXCEPT !.store = "stored"]

\* The largest number of settings a configuration changes from the defaults.
MaxChanges == 2

RECURSIVE ConfigsWithin(_)
ConfigsWithin(n) ==
  IF n = 0 THEN {DefaultConfig}
  ELSE ConfigsWithin(n - 1)
       \cup {Change(c, s) : c \in ConfigsWithin(n - 1), s \in Settings}

Configs == ConfigsWithin(MaxChanges)

----------------------------------------------------------------------------
(* The parse() call *)

VARIABLES
  workspace,           \* the export behind the source (see Workspaces)
  options,             \* the resolved options
  cache,               \* the cache argument of parse()
  cacheStore,          \* what the cache holds under the cache key
  pc,                  \* where parse() stands
  cache_needs_update,  \* the local of that name
  cached_data,         \* the cache lookup: "unread", "KeyError", "empty", "data"
  workspace_data,      \* where the parsed data came from: "none", "cache", "source"
  env_index,           \* the loop of _parse_workspace over the top-level nodes
  host_index,          \* the loop of parse() over self._hosts
  _hosts,              \* self._hosts
  calls,               \* the calls made to the collaborators, in order
  read_results,        \* how each read of the source ended
  error                \* the exception that ended parse(), "" for none

vars ==
  <<workspace, options, cache, cacheStore, pc, cache_needs_update, cached_data,
    workspace_data, env_index, host_index, _hosts, calls, read_results, error>>

Init ==
  /\ workspace \in Workspaces
  /\ \E c \in Configs :
       /\ options = c.options
       /\ cache = c.cache
       /\ cacheStore = c.store
  /\ pc = "begin"
  /\ cache_needs_update = FALSE
  /\ cached_data = "unread"
  /\ workspace_data = "none"
  /\ env_index = 1
  /\ host_index = 1
  /\ _hosts = <<>>
  /\ calls = <<>>
  /\ read_results = <<>>
  /\ error = ""

Plain(op, a) == Call(op, a, <<>>, StrVal(None), NoWhere)

\* source.startswith(("http://", "https://"))
IsUrl(source) == StartsWith(source, S_http) \/ StartsWith(source, S_https)

\* How a read can end: open() raises IOError, json.load raises
\* JSONDecodeError, open_url or json.loads raises some Exception.
ReadResults(source) ==
  IF IsUrl(source) THEN {"ok", "Exception"}
  ELSE {"ok", "IOError", "JSONDecodeError"}

\* A reader that wraps malformed JSON only, and swallows a failed open().
Mutant_read_source(source, result) ==
  [call |-> Plain(IF IsUrl(source) THEN "_fetch_url" ELSE "_read_file", source),
   exc  |-> IF result \in {"ok", "IOError"} THEN "" ELSE "AnsibleParserError"]

\* _read_source: the reader called and the exception that leaves it.
_read_source(source, result) ==
  [call |-> Plain(IF IsUrl(source) THEN "_fetch_url" ELSE "_read_file", source),
   exc  |-> IF result = "ok" THEN "" ELSE "AnsibleParserError"]

\* parse(), up to the cache check: the source option is required.
ParseBegin ==
  /\ pc = "begin"
  /\ IF ~Truthy(options.source)
     THEN /\ pc' = "failed"
          /\ error' = "AnsibleParserError"
          /\ UNCHANGED cache_needs_update
     ELSE /\ pc' = "check_cache"
          /\ cache_needs_update' = (options.cache /\ ~cache)
          /\ UNCHANGED error
  /\ UNCHANGED <<workspace, options, cache, cacheStore, cached_data,
                 workspace_data, env_index, host_index, _hosts, calls,
                 read_results>>

\* attempt_to_read_cache
AttemptToReadCache == options.cache /\ cache

\* self._cache.get(cache_key): KeyError, an empty result, or the data.
CacheGet(store) ==
  CASE store = "absent" -> "KeyError"
    [] store = "empty" -> "empty"
    [] store = "stored" -> "data"

\* cache_needs_update after the lookup: "except KeyError" sets it.
NeedsUpdateAfter(needs_update, lookup) ==
  IF lookup = "KeyError" THEN TRUE ELSE needs_update

\* "Check cache": a hit is parsed at once and parse() returns after it.
CheckCache ==
  /\ pc = "check_cache"
  /\ IF AttemptToReadCache
     THEN /\ calls' = Append(calls, Plain("cache_get", <<>>))
          /\ cached_data' = CacheGet(cacheStore)
          /\ cache_needs_update' = NeedsUpdateAfter(cache_needs_update, CacheGet(cacheStore))
          /\ IF CacheGet(cacheStore) = "data"
             THEN /\ workspace_data' = "cache"
                  /\ pc' = "walk"
             ELSE /\ pc' = "read"
                  /\ UNCHANGED workspace_data
     ELSE /\ pc' = "read"
          /\ UNCHANGED <<calls, workspace_data, cache_needs_update, cached_data>>
  /\ UNCHANGED <<workspace, options, cache, cacheStore, env_index, host_index,
                 _hosts, read_results, error>>

\* "Read and parse workspace data"
ReadSource ==
  /\ pc = "read"
  /\ \E result \in ReadResults(options.source) :
       LET r == _read_source(options.source, result)
       IN  /\ calls' = Append(calls, r.call)
           /\ read_results' = Append(read_results, result)
           /\ IF r.exc # ""
              THEN /\ pc' = "failed"
                   /\ error' = r.exc
                   /\ UNCHANGED workspace_data
              ELSE /\ pc' = "update_cache"
                   /\ workspace_data' = "source"
                   /\ UNCHANGED error
  /\ UNCHANGED <<workspace, options, cache, cacheStore, cache_needs_update,
                 cached_data, env_index, host_index, _hosts>>

\* "if cache_needs_update: self._cache[cache_key] = workspace_data"
UpdateCache ==
  /\ pc = "update_cache"
  /\ IF cache_needs_update
     THEN /\ calls' = Append(calls, Plain("cache_set", <<>>))
          /\ cacheStore' = "stored"
     ELSE UNCHANGED <<calls, cacheStore>>
  /\ pc' = "walk"
  /\ UNCHANGED <<workspace, options, cache, cache_needs_update, cached_data,
                 workspace_data, env_index, host_index, _hosts, read_results,
                 error>>

\* _parse_workspace: one top-level deployment node.
WalkEnvNode ==
  /\ pc = "walk"
  /\ env_index <= Len(workspace)
  /\ LET r == ParseEnvNode(options, DeploymentNodes(workspace)[env_index], env_index)
     IN  /\ calls' = calls \o r.calls
         /\ _hosts' = _hosts \o r.hosts
         /\ IF r.exc # ""
            THEN /\ pc' = "crashed"
                 /\ error' = r.exc
                 /\ UNCHANGED env_index
            ELSE /\ env_index' = env_index + 1
                 /\ UNCHANGED <<pc, error>>
  /\ UNCHANGED <<workspace, options, cache, cacheStore, cache_needs_update,
                 cached_data, workspace_data, host_index, read_results>>

\* _parse_workspace returns: to the "return" after a cache hit, or to
\* "Apply constructed features".
WalkDone ==
  /\ pc = "walk"
  /\ env_index > Len(workspace)
  /\ pc' = IF workspace_data = "cache" THEN "done" ELSE "constructed"
  /\ UNCHANGED <<workspace, options, cache, cacheStore, cache_needs_update,
                 cached_data, workspace_data, env_index, host_index, _hosts,
                 calls, read_results, error>>

\* "Apply constructed features (compose, groups, keyed_groups)": one host.
ApplyConstructed ==
  /\ pc = "constructed"
  /\ host_index <= Len(_hosts)
  /\ calls' = calls \o <<Plain("get_host", _hosts[host_index]),
                         Plain("_set_composite_vars", _hosts[host_index]),
                         Plain("_add_host_to_composed_groups", _hosts[host_index]),
                         Plain("_add_host_to_keyed_groups", _hosts[host_index])>>
  /\ host_index' = host_index + 1
  /\ UNCHANGED <<workspace, options, cache, cacheStore, pc, cache_needs_update,
                 cached_data, workspace_data, env_index, _hosts, read_results,
                 error>>

\* parse() returns after the last host.
ParseEnd ==
  /\ pc = "constructed"
  /\ host_index > Len(_hosts)
  /\ pc' = "done"
  /\ UNCHANGED <<workspace, options, cache, cacheStore, cache_needs_update,
                 cached_data, workspace_data, env_index, host_index, _hosts,
                 calls, read_results, error>>

Next ==
  \/ ParseBegin
  \/ CheckCache
  \/ ReadSource
  \/ UpdateCache
  \/ WalkEnvNode
  \/ WalkDone
  \/ ApplyConstructed
  \/ ParseEnd

Spec == Init /\ [][Next]_vars

----------------------------------------------------------------------------
(* Vocabulary of the properties *)

InventoryOps == {"add_host", "set_variable", "add_group", "add_child"}

MaterializeRoles ==
  {"self", "infrastructureNodes", "softwareSystemInstances", "containerInstances"}

CallIndices == 1..Len(calls)

\* The node reached from node along a path of child indices.
RECURSIVE Descend(_, _)
Descend(node, path) ==
  IF path = <<>> THEN node ELSE Descend(node.children[path[1]], Tail(path))

\* The paths of node and of all the deployment nodes below it.
RECURSIVE PathsUnder(_, _)
PathsUnder(node, path) ==
  {path} \cup UNION {PathsUnder(node.children[i], Append(path, i)) :
                       i \in 1..Len(node.children)}

TopNode(top) == DeploymentNodes(workspace)[top]

\* The deployment node a call was made at, and the node it materialized.
WalkedNode(c) == Descend(TopNode(c.top), c.path)

MaterializedNode(c) ==
  CASE c.role = "infrastructureNodes" -> WalkedNode(c).infrastructureNodes[c.idx]
    [] c.role = "softwareSystemInstances" -> WalkedNode(c).softwareSystemInstances[c.idx]
    [] c.role = "containerInstances" -> WalkedNode(c).containerInstances[c.idx]
    [] OTHER -> WalkedNode(c)

IsPrefix(p, q) == Len(p) <= Len(q) /\ SubSeq(q, 1, Len(p)) = p

\* The Tree Walker walked the deployment node at (top, path): a call was
\* made at it or below it.  The path <<>> is the top-level node itself.
WalkedAt(top, path) ==
  \E i \in CallIndices :
    /\ calls[i].top = top
    /\ IsPrefix(path, calls[i].path)
    /\ path # <<>> \/ calls[i].path = <<>>

\* The node carries ansible_force_host with a value that is "true" in any case.
ForceHost(node) ==
  LET properties == _normalize_properties(node)
  IN  /\ properties.exc = ""
      /\ DictHas(properties.map, S_ansible_force_host)
      /\ Lower(DictGet(properties.map, S_ansible_force_host)) = <<"t", "r", "u", "e">>

\* The identifier of node under the options, None when resolving it raises.
Identifier(node) == _get_host_identifier(options, node).val

\* add_host was called for the deployment node at (top, path).
HostAddedAt(top, path) ==
  \E i \in CallIndices :
    /\ calls[i].op = "add_host"
    /\ calls[i].role = "self"
    /\ calls[i].top = top
    /\ calls[i].path = path

----------------------------------------------------------------------------
(* C1: force-host promotion.  When the parse has ended, every deployment   *)
(* node the Tree Walker walked that has child deployment nodes, carries    *)
(* ansible_force_host = "true" in any case and has a non-empty identifier  *)
(* has been registered with add_host under that identifier.                *)
C1_ForceHostPromoted ==
  pc = "done" =>
    \A top \in 1..Len(workspace) :
      \A path \in PathsUnder(TopNode(top), <<>>) :
        LET node == Descend(TopNode(top), path)
        IN  (/\ WalkedAt(top, path)
             /\ HasChildren(node)
             /\ ForceHost(node)
             /\ Truthy(Identifier(node)))
            => \E i \in CallIndices :
                 /\ calls[i].op = "add_host"
                 /\ calls[i].a = Identifier(node)
                 /\ calls[i].top = top
                 /\ calls[i].path = path

(* C2: a parse served from the cache ends having applied the three         *)
(* constructed-variables steps (compose, groups, keyed_groups) to every    *)
(* host the walk materialized, as a parse read from the source does.       *)
C2_CacheHitAppliesConstructed ==
  (pc = "done" /\ workspace_data = "cache") =>
    \A h \in 1..Len(_hosts) :
      \A step \in {"_set_composite_vars", "_add_host_to_composed_groups",
                   "_add_host_to_keyed_groups"} :
        \E i \in CallIndices : calls[i].op = step /\ calls[i].a = _hosts[h]

(* C3: no self-membership.  No add_child(parent, child) is ever issued     *)
(* with parent equal to child, whatever grouping policy issues it.         *)
C3_NoSelfMembership ==
  \A i \in CallIndices : calls[i].op = "add_child" => calls[i].a # calls[i].b

(* C4: root-level dispatch.  When the parse has ended, every top-level     *)
(* deployment node that passes the environment filter, has no child        *)
(* deployment nodes (no children key, or an empty list) and has a          *)
(* non-empty identifier has been registered as a host exactly once.        *)
C4_ChildlessTopLevelIsOneHost ==
  pc = "done" =>
    \A top \in 1..Len(workspace) :
      (/\ PassesFilter(options, TopNode(top))
       /\ TopNode(top).children = <<>>
       /\ Truthy(Identifier(TopNode(top))))
      => Cardinality({i \in CallIndices :
                        /\ calls[i].op = "add_host"
                        /\ calls[i].role = "self"
                        /\ calls[i].top = top
                        /\ calls[i].path = <<>>}) = 1

(* C5: non-leaf nodes are groups only.  No add_host is ever issued by the  *)
(* walk step of a deployment node that has a child deployment node and     *)
(* does not carry the force-host property, whatever the options.           *)
C5_NonLeafNeverHost ==
  \A i \in CallIndices :
    (calls[i].op = "add_host" /\ calls[i].role = "self")
    => ~(HasChildren(WalkedNode(calls[i])) /\ ~ForceHost(WalkedNode(calls[i])))

\* A parse has ended in which a deployment node with a child and without
\* the force-host property was walked, and hosts were registered.
C5_Witness ==
  /\ pc = "done"
  /\ \E i \in CallIndices :
       /\ calls[i].role = "level"
       /\ HasChildren(WalkedNode(calls[i]))
       /\ ~ForceHost(WalkedNode(calls[i]))
  /\ \E i \in CallIndices : calls[i].op = "add_host" /\ calls[i].role = "self"

(* C6: environment filtering.  When the environment option is set (to a    *)
(* non-empty E), every inventory operation is issued while processing a    *)
(* top-level node whose label (its environment field, else its name) is E. *)
C6_OnlyFilteredEnvironment ==
  Truthy(options.environment) =>
    \A i \in CallIndices :
      calls[i].op \in InventoryOps
      => EnvName(TopNode(calls[i].top)) = options.environment

\* A parse with the filter set has ended, over a workspace with a top-level
\* node of another label, having issued inventory operations.
C6_Witness ==
  /\ pc = "done"
  /\ Truthy(options.environment)
  /\ \E top \in 1..Len(workspace) :
       /\ EnvName(TopNode(top)) # options.environment
       /\ TopNode(top).children # <<>>
  /\ \E i \in CallIndices : calls[i].op = "add_child"

\* The value of property name among the normalized properties of node, None
\* when there is none or normalizing raises.
PropertyOf(node, name) ==
  LET properties == _normalize_properties(node)
  IN  IF properties.exc = "" /\ DictHas(properties.map, name)
      THEN DictGet(properties.map, name)
      ELSE None

\* Identifier derivation has nothing to return for node: the selected field
\* or property and the fallback name are all absent or empty.
NothingToReturn(node) ==
  /\ ~Truthy(node.name)
  /\ options.host_identifier = S_id => ~Truthy(node.id)
  /\ options.host_identifier \notin {S_id, S_name}
       => ~Truthy(PropertyOf(node, options.host_identifier))

(* C7: an empty identifier means skip.  No inventory operation is ever     *)
(* issued to materialize a node for which identifier derivation has        *)
(* nothing to return, in any identifier mode, and no parse ends in an      *)
(* error raised while materializing such a node.                           *)
C7_EmptyIdentifierSkipped ==
  \A i \in CallIndices :
    calls[i].role \in MaterializeRoles => ~NothingToReturn(MaterializedNode(calls[i]))

(* C8: cache fill on miss.  Whenever caching is enabled and the cache      *)
(* lookup yielded no workspace (KeyError, or an empty result), the tree    *)
(* walk starts only after the workspace read from the source has been      *)
(* stored in the cache.                                                    *)
C8_CacheFilledOnMiss ==
  (/\ pc \in {"walk", "crashed", "constructed", "done"}
   /\ options.cache
   /\ cached_data \in {"KeyError", "empty"})
  => /\ cacheStore = "stored"
     /\ \E i \in CallIndices :
          /\ calls[i].op = "cache_set"
          /\ \A j \in 1..(i - 1) : calls[j].op \notin InventoryOps

C10_NormalizationNeverRaises ==
  /\ error # "KeyError"
  /\ \A i \in CallIndices :
       calls[i].role \in MaterializeRoles
       => LET node == MaterializedNode(calls[i])
          IN  /\ _normalize_properties(node).exc = ""
              /\ node.properties.shape \in {"absent", "other"}
                   => _normalize_properties(node).map = <<>>

\* name is a valid group name: non-empty, made of a-z, 0-9 and "_" only, and
\* not starting with a digit.
IsGroupName(name) ==
  /\ name # <<>>
  /\ \A k \in 1..Len(name) :
       IsLowerCh(name[k]) \/ name[k] \in DigitChars \/ name[k] = "_"
  /\ name[1] \notin DigitChars

(* C11: every registered group name is sanitized.  Each name passed to     *)
(* add_group, and each parent of an add_child, is non-empty, consists only *)
(* of the characters a-z, 0-9 and "_", and does not start with a digit.    *)
C11_GroupNamesSanitized ==
  \A i \in CallIndices :
    calls[i].op \in {"add_group", "add_child"} => IsGroupName(calls[i].a)

\* The identifier the resolution rule gives node: its name in mode "name";
\* its id, else its name, in mode "id"; in any other mode the property of
\* that name, else its name.
ResolvedIdentifier(node) ==
  IF options.host_identifier = S_name THEN node.name
  ELSE IF options.host_identifier = S_id
  THEN IF node.id # None THEN node.id ELSE node.name
  ELSE IF PropertyOf(node, options.host_identifier) # None
  THEN PropertyOf(node, options.host_identifier)
  ELSE node.name

(* C12: host identifier resolution.  Every host is registered under the    *)
(* identifier the rule gives its node: the name in mode "name"; the id,    *)
(* falling back to the name when the id is absent, in mode "id"; in any    *)
(* other mode P the value of property P of the node (list or mapping       *)
(* form), falling back to the name when P is absent; and no parse ends in  *)
(* an error raised while resolving an identifier.                          *)
C12_IdentifierResolution ==
  /\ error = "KeyError" => options.host_identifier \in {S_id, S_name}
  /\ \A i \in CallIndices :
       calls[i].op = "add_host"
       => calls[i].a = ResolvedIdentifier(MaterializedNode(calls[i]))

\* Two calls were made while materializing the same node.
SameMaterialization(c, d) ==
  /\ c.role \in MaterializeRoles
  /\ c.top = d.top /\ c.path = d.path /\ c.role = d.role /\ c.idx = d.idx

(* C13: fixed identity variables.  Whatever the node's properties, the     *)
(* property prefix and the pass-through list, the variables written for a  *)
(* host give structurizr_id the node's id and structurizr_name the node's  *)
(* name, and a host materialized in a walk that ran to its end has both.   *)
C13_FixedIdentityVariables ==
  /\ \A i \in CallIndices :
       (calls[i].op = "set_variable" /\ calls[i].role \in MaterializeRoles)
       => /\ calls[i].b = S_structurizr_id
               => calls[i].val = StrVal(MaterializedNode(calls[i]).id)
          /\ calls[i].b = S_structurizr_name
               => calls[i].val = StrVal(MaterializedNode(calls[i]).name)
  /\ pc \in {"constructed", "done"}
       => \A i \in CallIndices :
            calls[i].op = "add_host"
            => \A key \in {S_structurizr_id, S_structurizr_name} :
                 \E j \in CallIndices :
                   /\ calls[j].op = "set_variable"
                   /\ calls[j].b = key
                   /\ SameMaterialization(calls[i], calls[j])

\* A property of this name is stored verbatim: the name is reserved for
\* Ansible or is in the pass-through list.
Verbatim(prop_name) ==
  \/ StartsWith(prop_name, S_ansible_)
  \/ \E k \in 1..Len(options.ansible_property_passthrough) :
       options.ansible_property_passthrough[k] = prop_name

TagElements(node) ==
  IF Truthy(node.tags)
  THEN {StrippedTags(node.tags)[k] : k \in 1..Len(StrippedTags(node.tags))}
  ELSE {}

\* The group of tag t.
TagGroup(t) == _sanitize_group_name(S_tag_ \o t)

(* C15: tag grouping.  With tag grouping enabled, a materialized host is   *)
(* added as a child of the group sanitize("tag_" + t) for exactly the      *)
(* trimmed elements t of its tag string that are non-empty and not one of  *)
(* "Element", "Deployment Node", "Infrastructure Node": each such group is *)
(* registered and given the host, no other tag_ group is, and neither the  *)
(* structural tags nor an empty element register a group or a membership.  *)
C15_TagGrouping ==
  options.group_by_tags =>
    \A i \in CallIndices :
      (calls[i].op = "add_host"
       /\ _normalize_properties(MaterializedNode(calls[i])).exc = "")
      => LET elements == TagElements(MaterializedNode(calls[i]))
             grouping == {TagGroup(t) :
                            t \in {e \in elements : e # <<>> /\ e \notin StructuralTags}}
             excluded == {TagGroup(t) : t \in StructuralTags \cup {<<>>}}
             groups   == SelectSeq(calls,
                                   LAMBDA d : /\ SameMaterialization(calls[i], d)
                                              /\ d.op \in {"add_group", "add_child"})
         IN  /\ \A g \in grouping :
                  \E j \in 1..(Len(groups) - 1) :
                    /\ groups[j].op = "add_group" /\ groups[j].a = g
                    /\ groups[j + 1].op = "add_child" /\ groups[j + 1].a = g
                    /\ groups[j + 1].b = calls[i].a
             /\ \A j \in 1..Len(groups) :
                  /\ groups[j].a \notin excluded
                  /\ StartsWith(groups[j].a, S_tag_) => groups[j].a \in grouping

\* A parse with tag grouping has ended, having put in the group of its tag
\* a host whose tag string also holds structural tags, and another whose
\* tag string holds an empty element.
C15_Witness ==
  /\ pc = "done"
  /\ options.group_by_tags
  /\ \E i, j \in CallIndices :
       /\ calls[i].op = "add_child" /\ calls[i].role = "self"
       /\ calls[i].a = TagGroup(<<"W">>)
       /\ S_Element \in TagElements(MaterializedNode(calls[i]))
       /\ calls[j].op = "add_child" /\ calls[j].role = "self"
       /\ calls[j].a = TagGroup(<<"d", "b">>)
       /\ <<>> \in TagElements(MaterializedNode(calls[j]))

\* The walk of _parse_workspace reaches the deployment node at (top, path):
\* the top-level node passes the filter, and the node is one below a
\* top-level node that has a "children" key, or is a top-level node that
\* has none.
Walks(top, path) ==
  /\ PassesFilter(options, TopNode(top))
  /\ path \in PathsUnder(TopNode(top), <<>>)
  /\ IF TopNode(top).hasChildren THEN path # <<>> ELSE path = <<>>

\* The add_host calls of a sequence of calls that registered deployment
\* nodes of the top-level node top.
DeploymentNodeHosts(cs, top) ==
  SelectSeq(cs, LAMBDA c : c.op = "add_host" /\ c.role = "self" /\ c.top = top)

\* The walk has been through the top-level node top, to its end or to the
\* exception that ended the parse.
WalkedThrough(top) ==
  top < env_index \/ (pc = "crashed" /\ top = env_index)

(* C16: infrastructure-node inclusion.  After a walk that ran to its end,  *)
(* for every deployment node the walk reaches, leaf or not: when           *)
(* include_infrastructure_nodes is true every attached infrastructure      *)
(* node with a non-empty identifier has been registered as a host, and     *)
(* when it is false no call was made for an attached infrastructure node;  *)
(* and the deployment nodes registered as hosts are those the walk         *)
(* registers under the other value of the option.                          *)
C16_InfrastructureNodeInclusion ==
  /\ pc \in {"constructed", "done"}
       => \A top \in 1..Len(workspace) :
            \A path \in PathsUnder(TopNode(top), <<>>) :
              Walks(top, path)
              => LET infra == Descend(TopNode(top), path).infrastructureNodes
                 IN  \A idx \in 1..Len(infra) :
                       (options.include_infrastructure_nodes
                        /\ Truthy(Identifier(infra[idx])))
                       => \E i \in CallIndices :
                            /\ calls[i].op = "add_host"
                            /\ calls[i].a = Identifier(infra[idx])
                            /\ calls[i].top = top /\ calls[i].path = path
                            /\ calls[i].role = "infrastructureNodes"
                            /\ calls[i].idx = idx
  /\ ~options.include_infrastructure_nodes
       => \A i \in CallIndices : calls[i].role # "infrastructureNodes"
  /\ \A top \in 1..Len(workspace) :
       WalkedThrough(top)
       => DeploymentNodeHosts(calls, top)
          = DeploymentNodeHosts(
              ParseEnvNode([options EXCEPT !.include_infrastructure_nodes = ~@],
                           TopNode(top), top).calls, top)

\* A parse with the inclusion on has ended, having registered an
\* infrastructure node attached to a deployment node with children and one
\* attached to a leaf, and deployment nodes besides.
C16_Witness ==
  /\ pc = "done"
  /\ options.include_infrastructure_nodes
  /\ \E i, j, k \in CallIndices :
       /\ calls[i].op = "add_host" /\ calls[i].role = "infrastructureNodes"
       /\ HasChildren(WalkedNode(calls[i]))
       /\ calls[j].op = "add_host" /\ calls[j].role = "infrastructureNodes"
       /\ ~HasChildren(WalkedNode(calls[j]))
       /\ calls[k].op = "add_host" /\ calls[k].role = "self"

\* The three steps of the constructed-variables post-pass.
ConstructedOps ==
  {"_set_composite_vars", "_add_host_to_composed_groups",
   "_add_host_to_keyed_groups"}

(* C17: the post-pass runs once per host, after the walk.  In a parse that *)
(* reads the workspace from the source, no constructed-variables step is   *)
(* made before the walk has finished (every inventory operation precedes   *)
(* every such step), and when the parse has ended each of the three steps  *)
(* has been made exactly once for each materialized host identifier, also  *)
(* when several nodes resolve to the same identifier.                      *)
C17_PostPassOncePerHost ==
  workspace_data = "source" =>
    /\ \A i, j \in CallIndices :
         (calls[i].op \in ConstructedOps /\ calls[j].op \in InventoryOps) => j < i
    /\ (\E i \in CallIndices : calls[i].op \in ConstructedOps)
         => pc \in {"constructed", "done"}
    /\ pc = "done"
         => \A h \in {_hosts[k] : k \in 1..Len(_hosts)} :
              \A step \in ConstructedOps :
                Cardinality({i \in CallIndices :
                               calls[i].op = step /\ calls[i].a = h}) = 1

\* The name of the deployment node at (top, path), "" when it has none.
NameAt(top, path) ==
  LET node == Descend(TopNode(top), path)
  IN  IF node.name = None THEN <<>> ELSE node.name

\* The names of the ancestors of the node a call materialized, from the
\* top-level node down: the deployment nodes above a deployment node, and
\* for an attached instance those and the deployment node it is attached to.
AncestorNames(c) ==
  LET n == IF c.role = "self" THEN Len(c.path) ELSE Len(c.path) + 1
  IN  [k \in 1..n |-> NameAt(c.top, SubSeq(c.path, 1, k - 1))]

\* The readings of "from the environment root": the top-level node counted
\* or, when it only holds the environment's nodes, not counted.
AncestorPaths(c) ==
  {AncestorNames(c)}
  \cup (IF TopNode(c.top).hasChildren /\ AncestorNames(c) # <<>>
        THEN {Tail(AncestorNames(c))}
        ELSE {})

(* C18: the hierarchy path excludes the node itself.  The                  *)
(* structurizr_hierarchy variable written for a host is the sequence of    *)
(* the names of the node's ancestors, from the environment root down to    *)
(* but not including the node that became the host; no such variable is    *)
(* written for a host without ancestors.                                   *)
C18_HierarchyExcludesSelf ==
  \A i \in CallIndices :
    (calls[i].op = "add_host"
     /\ _normalize_properties(MaterializedNode(calls[i])).exc = "")
    => IF \E j \in CallIndices :
            /\ calls[j].op = "set_variable"
            /\ SameMaterialization(calls[i], calls[j])
            /\ calls[j].b = S_structurizr_hierarchy
       THEN \A j \in CallIndices :
              (/\ calls[j].op = "set_variable"
               /\ SameMaterialization(calls[i], calls[j])
               /\ calls[j].b = S_structurizr_hierarchy)
              => /\ calls[j].val.kind = "list"
                 /\ calls[j].val.v \in AncestorPaths(calls[i])
       ELSE <<>> \in AncestorPaths(calls[i])

\* The hierarchy group of the deployment node at (top, path): the sanitized
\* underscore-join of the names on the way to it, its own name included.
\* The way starts at the first walked node: below a top-level node that has
\* children, at a top-level node that has none.
GroupAt(top, path) ==
  _sanitize_group_name(
    Join(<<"_">>,
         IF TopNode(top).hasChildren
         THEN [k \in 1..Len(path) |-> NameAt(top, SubSeq(path, 1, k))]
         ELSE <<NameAt(top, <<>>)>>))

\* The hierarchy groups of the walked ancestors of the node at (top, path).
AncestorGroups(top, path) ==
  {GroupAt(top, SubSeq(path, 1, k)) : k \in 1..(Len(path) - 1)}

(* C19: hierarchy groups nest under every ancestor.  With hierarchy        *)
(* grouping enabled, after a walk that ran to its end, for every           *)
(* deployment node the walk reaches that has children, its group G (the    *)
(* sanitized underscore-join of the hierarchy path including its own name) *)
(* has been registered with add_group and add_child(A, G) has been issued  *)
(* for every group A of its ancestors with A different from G, and no      *)
(* other call is made for the node's level; with hierarchy grouping        *)
(* disabled no call is made for any node's level.                          *)
C19_HierarchyGroupsNest ==
  /\ (options.group_by_hierarchy /\ pc \in {"constructed", "done"})
       => \A top \in 1..Len(workspace) :
            \A path \in PathsUnder(TopNode(top), <<>>) :
              (Walks(top, path) /\ HasChildren(Descend(TopNode(top), path)))
              => LET G  == GroupAt(top, path)
                     at == [top |-> top, path |-> path, role |-> "level", idx |-> 0]
                 IN  \E i \in CallIndices :
                       /\ calls[i] = add_group(G, at)
                       /\ \A A \in AncestorGroups(top, path) \ {G} :
                            \E j \in CallIndices :
                              i < j /\ calls[j] = add_child(A, G, at)
  /\ \A i \in CallIndices :
       calls[i].role = "level"
       => /\ options.group_by_hierarchy
          /\ HasChildren(WalkedNode(calls[i]))
          /\ \/ calls[i].op = "add_group"
                /\ calls[i].a = GroupAt(calls[i].top, calls[i].path)
             \/ calls[i].op = "add_child"
                /\ calls[i].b = GroupAt(calls[i].top, calls[i].path)
                /\ calls[i].a \in AncestorGroups(calls[i].top, calls[i].path)
                /\ calls[i].a # calls[i].b

\* A parse with hierarchy grouping has ended, having nested the group of a
\* node three levels down under the group of its grandparent.
C19_Witness ==
  /\ pc = "done"
  /\ options.group_by_hierarchy
  /\ \E i \in CallIndices :
       /\ calls[i].op = "add_child" /\ calls[i].role = "level"
       /\ Len(calls[i].path) = 3
       /\ calls[i].a = GroupAt(calls[i].top, SubSeq(calls[i].path, 1, 1))
       /\ calls[i].b = GroupAt(calls[i].top, calls[i].path)

\* The calls made while materializing the node of call c, in order.
Materialization(c) == SelectSeq(calls, LAMBDA d : SameMaterialization(c, d))

\* The step of a materialization a call belongs to.
Step(c) ==
  CASE c.op = "add_host" -> 0
    [] c.op = "set_variable" -> 1
    [] OTHER -> 2

\* The groups a host is put in, in the order of the grouping policies:
\* environment, tags in the order of the tag string, technology, and the
\* hierarchy chain from the top down (without an empty group and without a
\* group of the host's own name).
EnvironmentGroupOf(c) ==
  IF options.group_by_environment /\ Truthy(EnvName(TopNode(c.top)))
  THEN <<_sanitize_group_name(S_env_ \o EnvName(TopNode(c.top)))>>
  ELSE <<>>

TagGroupsOf(c) ==
  IF options.group_by_tags /\ Truthy(MaterializedNode(c).tags)
  THEN LET kept == SelectSeq(StrippedTags(MaterializedNode(c).tags),
                             LAMBDA t : t # <<>> /\ t \notin StructuralTags)
       IN  [k \in 1..Len(kept) |-> TagGroup(kept[k])]
  ELSE <<>>

TechnologyGroupOf(c) ==
  IF options.group_by_technology /\ Truthy(MaterializedNode(c).technology)
  THEN <<_sanitize_group_name(S_tech_ \o MaterializedNode(c).technology)>>
  ELSE <<>>

HierarchyChainOf(c) ==
  IF options.group_by_hierarchy
  THEN SelectSeq(IF TopNode(c.top).hasChildren
                 THEN [k \in 1..Len(c.path) |-> GroupAt(c.top, SubSeq(c.path, 1, k))]
                 ELSE <<GroupAt(c.top, <<>>)>>,
                 LAMBDA g : g # <<>> /\ g # c.a)
  ELSE <<>>

GroupsInOrder(c) ==
  EnvironmentGroupOf(c) \o TagGroupsOf(c) \o TechnologyGroupOf(c)
  \o HierarchyChainOf(c)

(* C20: materialization order.  For every node that becomes a host h, the  *)
(* calls of its materialization come in this order: add_host(h) first,     *)
(* then the set_variable(h, key, value) calls, then the group              *)
(* registrations, an add_group(g) followed by add_child(g, h) for each     *)
(* group in the order environment, tags, technology, hierarchy chain; no   *)
(* set_variable or add_child naming h is issued before add_host(h).        *)
C20_MaterializationOrder ==
  /\ \A j \in CallIndices :
       calls[j].role \in MaterializeRoles
       => \E i \in 1..j :
            /\ calls[i].op = "add_host"
            /\ SameMaterialization(calls[i], calls[j])
            /\ calls[j].op \in {"add_host", "set_variable"} => calls[j].a = calls[i].a
            /\ calls[j].op = "add_child" => calls[j].b = calls[i].a
  /\ \A i \in CallIndices :
       calls[i].op = "add_host"
       => LET M      == Materialization(calls[i])
              groups == SelectSeq(M, LAMBDA d : Step(d) = 2)
              wanted == GroupsInOrder(calls[i])
          IN  /\ M[1] = calls[i]
              /\ \A k \in 2..Len(M) : M[k].op # "add_host"
              /\ \A k, l \in 1..Len(M) : k < l => Step(M[k]) <= Step(M[l])
              /\ _normalize_properties(MaterializedNode(calls[i])).exc = ""
                   => /\ \E k \in 1..Len(M) : M[k].op = "set_variable"
                      /\ Len(groups) = 2 * Len(wanted)
                      /\ \A k \in 1..Len(wanted) :
                           /\ groups[2 * k - 1].op = "add_group"
                           /\ groups[2 * k - 1].a = wanted[k]
                           /\ groups[2 * k].op = "add_child"
                           /\ groups[2 * k].a = wanted[k]
                           /\ groups[2 * k].b = calls[i].a

\* A parse has ended in which one host was put in an environment group, a
\* tag group, a technology group and a hierarchy group.
C20_Witness ==
  /\ pc = "done"
  /\ \E i \in CallIndices :
       /\ calls[i].op = "add_host"
       /\ EnvironmentGroupOf(calls[i]) # <<>>
       /\ TagGroupsOf(calls[i]) # <<>>
       /\ TechnologyGroupOf(calls[i]) # <<>>
       /\ HierarchyChainOf(calls[i]) # <<>>
       /\ Len(Materialization(calls[i])) > 2 * Len(GroupsInOrder(calls[i])) + 1

(* C21: an add_child never references an unregistered entity.  Each        *)
(* add_child(parent, child) is issued only after parent has been           *)
(* registered with add_group and child has been registered with add_host   *)
(* or add_group; this includes the links between a hierarchy group and     *)
(* the groups of its ancestors.                                            *)
C21_AddChildAfterRegistration ==
  \A j \in CallIndices :
    calls[j].op = "add_child"
    => /\ \E i \in 1..(j - 1) :
            calls[i].op = "add_group" /\ calls[i].a = calls[j].a
       /\ \E i \in 1..(j - 1) :
            calls[i].op \in {"add_host", "add_group"} /\ calls[i].a = calls[j].b

\* A parse has ended, having linked a hierarchy group to the group of an
\* ancestor and having put a host in a hierarchy group and in the group of
\* its environment.
C21_Witness ==
  /\ pc = "done"
  /\ \E i, j, k \in CallIndices :
       /\ calls[i].op = "add_child" /\ calls[i].role = "level"
       /\ calls[j].op = "add_child" /\ calls[j].role = "self"
       /\ calls[j].a = GroupAt(calls[j].top, calls[j].path)
       /\ calls[k].op = "add_child" /\ calls[k].role = "self"
       /\ <<calls[k].a>> = EnvironmentGroupOf(calls[k])

NamePath(top, path) ==
  IF TopNode(top).hasChildren
  THEN [k \in 1..Len(path) |-> NameAt(top, SubSeq(path, 1, k))]
  ELSE <<NameAt(top, <<>>)>>

\* The calls that registered the hierarchy group of a node's level.
LevelGroups == {i \in CallIndices : calls[i].role = "level" /\ calls[i].op = "add_group"}

(* C23: hierarchy group names do not depend on the environment.  The       *)
(* hierarchy group registered for a node is the sanitized underscore-join  *)
(* of the names on its path below the top-level node and of nothing else,  *)
(* so two nodes with the same path of names under different environments   *)
(* get one and the same group; and when no environment filter is set,      *)
(* after a walk that ran to its end, the hosts materialized at or below    *)
(* both nodes are members of that shared group.                            *)
C23_HierarchyGroupsIgnoreEnvironment ==
  /\ \A i \in LevelGroups :
       calls[i].a = _sanitize_group_name(
                      Join(<<"_">>, NamePath(calls[i].top, calls[i].path)))
  /\ \A i, j \in LevelGroups :
       NamePath(calls[i].top, calls[i].path) = NamePath(calls[j].top, calls[j].path)
       => calls[i].a = calls[j].a
  /\ (pc \in {"constructed", "done"} /\ ~Truthy(options.environment))
       => \A i, j \in LevelGroups :
            (/\ calls[i].top # calls[j].top
             /\ EnvName(TopNode(calls[i].top)) # EnvName(TopNode(calls[j].top))
             /\ NamePath(calls[i].top, calls[i].path)
                = NamePath(calls[j].top, calls[j].path))
            => \A h \in CallIndices :
                 (/\ calls[h].op = "add_host"
                  /\ calls[h].top = calls[i].top
                  /\ IsPrefix(calls[i].path, calls[h].path)
                  /\ calls[h].a # calls[i].a
                  /\ _normalize_properties(MaterializedNode(calls[h])).exc = "")
                 => \E m \in CallIndices :
                      /\ calls[m].op = "add_child"
                      /\ SameMaterialization(calls[h], calls[m])
                      /\ calls[m].a = calls[j].a
                      /\ calls[m].b = calls[h].a

\* A parse without a filter has ended, having put a host of one environment
\* and a host of another environment in the same hierarchy group.
C23_Witness ==
  /\ pc = "done"
  /\ ~Truthy(options.environment)
  /\ \E i, j \in CallIndices :
       /\ calls[i].op = "add_child" /\ calls[i].role \in MaterializeRoles
       /\ calls[j].op = "add_child" /\ calls[j].role \in MaterializeRoles
       /\ calls[i].top # calls[j].top
       /\ EnvName(TopNode(calls[i].top)) # EnvName(TopNode(calls[j].top))
       /\ calls[i].a = calls[j].a
       /\ calls[i].b # calls[j].b
       /\ calls[i].path # <<>> /\ calls[j].path # <<>>
       /\ calls[i].a = GroupAt(calls[i].top, SubSeq(calls[i].path, 1, 1))
       /\ calls[j].a = GroupAt(calls[j].top, SubSeq(calls[j].path, 1, 1))

====
